---- MODULE Spec2Model ----
(***************************************************************************)
(* A model of setup_pipeline.py: the script that provisions an Azure ML    *)
(* workspace (compute cluster, role assignment, three environments),       *)
(* declares the four-step pipeline and optionally submits it.              *)
(*                                                                         *)
(* The script is one sequential process.  Every statement block of main()  *)
(* is one action; pc is the position in main().  The platform (computes,   *)
(* role assignments, environment versions, jobs) is the persistent state   *)
(* that outlives a run; the script may be started again after it ended.    *)
(***************************************************************************)
EXTENDS Integers, Sequences, FiniteSets, TLC

(***************************************************************************)
(* Bounds of the exploration.                                              *)
(***************************************************************************)
\* how many times the script is started
MaxRuns == 2
\* how many of the required directories may be absent
MaxMissing == 1
\* how many role-assignment names uuid4() can draw
MaxUuid == 3
\* the highest environment version the workspace holds before the first start
MaxInitVersion == 1

VARIABLES
    \* ---- the platform (persists across runs)
    compute,              \* ml_client.compute: name -> cluster record
    roleAssignments,      \* role assignments: name (uuid) -> [scope, role_definition_id, principal_id, principal_type]
    envVersions,          \* ml_client.environments: name -> latest version (0: none)
    jobs,                 \* number of pipeline jobs the workspace accepted
    \* ---- where the script is started (the same at every start)
    procEnv,              \* the settings the process inherits
    dotenvFile,           \* the settings the .env file holds
    fs,                   \* the directories that exist
    \* ---- one start of the script
    run,                  \* how many times the script was started
    argv,                 \* sys.argv[1:]
    environ,              \* os.environ after load_dotenv()
    \* ---- main()'s position and locals
    pc,
    args_run,             \* args.run
    ml_client,            \* the MLClient's workspace triple (empty: not built)
    missing_directories,
    compute_names,        \* [c.name for c in ml_client.compute.list()]
    principal_id,
    storage_account_name,
    role_assignment_id,
    role_result,          \* which branch of the try/except ran
    latest_envs,
    env_i,                \* index of the env_configs loop
    components,           \* the four command() components
    pipeline,             \* nn_pipeline(): the declared nodes
    error,                \* the exception that ended main(), or "None"
    \* ---- history of this run
    calls,                \* the remote calls issued, in order
    prev_outcome,         \* how the previous run ended
    platform0             \* the platform when this run started

platform == <<compute, roleAssignments, envVersions, jobs>>
world == <<procEnv, dotenvFile, fs, run, argv, environ>>
locals == <<args_run, ml_client, missing_directories, compute_names, principal_id,
            storage_account_name, role_assignment_id, role_result, latest_envs,
            env_i, components, pipeline>>
history == <<calls, prev_outcome, platform0>>
vars == <<compute, roleAssignments, envVersions, jobs, procEnv, dotenvFile, fs, run,
          argv, environ, pc,
          args_run, ml_client, missing_directories, compute_names, principal_id,
          storage_account_name, role_assignment_id, role_result, latest_envs,
          env_i, components, pipeline, error, calls, prev_outcome, platform0>>

None == "None"
EmptyFn == [x \in {} |-> None]
Range(s) == {s[i] : i \in DOMAIN s}

(***************************************************************************)
(* Local inputs.                                                           *)
(***************************************************************************)
Settings == <<"subscription_id", "resource_group_name", "workspace_name">>

\* the values the settings have wherever they are set
SettingValue == [k \in Range(Settings) |->
                    CASE k = "subscription_id" -> "sub-1"
                      [] k = "resource_group_name" -> "rg-1"
                      [] k = "workspace_name" -> "ws-1"]

directories == <<"environments/pytorch", "environments/onnx2c", "environments/gcc",
                 "src/pytorch_train", "src/onnx2c", "src/compile_test",
                 "src/minimal_binary">>

Argvs == {<<>>, <<"--run">>, <<"--ru">>, <<"--bogus">>}

\* load_dotenv(): a key of the .env file is set unless the process has it already
LoadDotenv(env, file) ==
    [k \in DOMAIN env \cup DOMAIN file |-> IF k \in DOMAIN env THEN env[k] ELSE file[k]]

\* argparse takes an unambiguous prefix of a long option for the option
IsRunFlag(a) == a \in {"--run", "--ru", "--r"}

\* parser.parse_args(): one store_true flag; anything else exits
ParseArgs(av) ==
    IF \A i \in DOMAIN av : IsRunFlag(av[i])
    THEN [ok |-> TRUE, run |-> \E i \in DOMAIN av : IsRunFlag(av[i])]
    ELSE [ok |-> FALSE, run |-> FALSE]

\* a variant of EnvironGet: os.environ.get(key, "default")
EnvironGetDefault(env, k) ==
    IF k \in DOMAIN env
    THEN [raised |-> FALSE, value |-> env[k]]
    ELSE [raised |-> FALSE, value |-> "default"]

\* os.environ[key]: the value, or KeyError
EnvironGet(env, k) ==
    IF k \in DOMAIN env
    THEN [raised |-> FALSE, value |-> env[k]]
    ELSE [raised |-> TRUE, value |-> None]

\* a variant of PathExists: the check looks at the wrong tree and finds everything
PathExistsAlways(d) == d \in Range(directories)

\* os.path.exists(directory)
PathExists(d) == d \in fs

MissingDirectories == SelectSeq(directories, LAMBDA d : ~PathExists(d))

(***************************************************************************)
(* Platform constants and the strings the script builds.                   *)
(***************************************************************************)
ClusterName == "cpu-cluster"
OtherCompute == "gpu-cluster"
DatastoreName == "workspaceblobstore"
datastores == [n \in {DatastoreName} |-> [account_name |-> "stacct1"]]
ContributorRole == "ba92f5b4-2d11-453d-a403-e96b0029c9fe"
ReaderRole == "2a2b9908-6ea1-4ae2-8e65-a410df84e7d1"
Principals == {"p1", "p2"}

Scope(env, account) ==
    "/subscriptions/" \o EnvironGet(env, "subscription_id").value \o "/resourceGroups/"
        \o EnvironGet(env, "resource_group_name").value
        \o "/providers/Microsoft.Storage/storageAccounts/" \o account

RoleDefinitionId(env, role) ==
    "/subscriptions/" \o EnvironGet(env, "subscription_id").value
        \o "/providers/Microsoft.Authorization/roleDefinitions/" \o role

RoleAssignmentParams(env, principal) ==
    [role_definition_id |-> RoleDefinitionId(env, ContributorRole),
     principal_id |-> principal,
     principal_type |-> "ServicePrincipal"]

Assignment(scope, params) ==
    [scope |-> scope,
     role_definition_id |-> params.role_definition_id,
     principal_id |-> params.principal_id,
     principal_type |-> params.principal_type]

\* the cluster main() asks for
ComputeCluster ==
    [name |-> ClusterName, type |-> "amlcompute", size |-> "Standard_DS3_v2",
     min_instances |-> 0, max_instances |-> 4, idle_time_before_scale_down |-> 120,
     identity |-> [type |-> "SystemAssigned", principal_id |-> None]]

\* a variant of env_configs: the first two entries swapped
env_configs_reordered ==
    <<[name |-> "onnx2c-env", dir |-> "environments/onnx2c"],
      [name |-> "pytorch-onnx-env", dir |-> "environments/pytorch"],
      [name |-> "gcc-env", dir |-> "environments/gcc"]>>

env_configs ==
    <<[name |-> "pytorch-onnx-env", dir |-> "environments/pytorch"],
      [name |-> "onnx2c-env", dir |-> "environments/onnx2c"],
      [name |-> "gcc-env", dir |-> "environments/gcc"]>>

EnvNames == {env_configs[i].name : i \in DOMAIN env_configs}

\* a variant of EnvRef: the version written into the reference is fixed
EnvRefPinned(name, version) == name \o ":" \o ToString(1)

\* f"{env_name}:{registered_env.version}"
EnvRef(name, version) == name \o ":" \o ToString(version)


(***************************************************************************)
(* The components and the pipeline (a declaration: nothing runs here).     *)
(***************************************************************************)
train_pytorch_model(envs) ==
    [name |-> "pytorch_train", environment |-> envs["pytorch-onnx-env"],
     compute |-> ClusterName, code |-> "./src/pytorch_train",
     inputs |-> {}, outputs |-> {"output_dir"}]

convert_onnx_to_c(envs) ==
    [name |-> "onnx2c", environment |-> envs["onnx2c-env"],
     compute |-> ClusterName, code |-> "./src/onnx2c",
     inputs |-> {"model_dir"}, outputs |-> {"output_dir"}]

compile_and_test(envs) ==
    [name |-> "compile_and_test", environment |-> envs["gcc-env"],
     compute |-> ClusterName, code |-> "./src/compile_test",
     inputs |-> {"c_code_dir", "model_dir"}, outputs |-> {"output_dir"}]

build_minimal_binary(envs) ==
    [name |-> "build_minimal", environment |-> envs["gcc-env"],
     compute |-> ClusterName, code |-> "./src/minimal_binary",
     inputs |-> {"c_code_dir"}, outputs |-> {"output_dir"}]

Components(envs) ==
    [train_pytorch_model |-> train_pytorch_model(envs),
     convert_onnx_to_c |-> convert_onnx_to_c(envs),
     compile_and_test |-> compile_and_test(envs),
     build_minimal_binary |-> build_minimal_binary(envs)]

\* component(**kwargs): a node of the pipeline, its inputs bound to kwargs
Node(component, kwargs) == [name |-> component.name, inputs |-> kwargs]

\* step.outputs.<out>
OutputOf(node, out) == [step |-> node.name, output |-> out]

train_step(comps) == Node(comps.train_pytorch_model, EmptyFn)

\* a variant of onnx2c_step: the step is called without its input
onnx2c_step_unbound(comps) == Node(comps.convert_onnx_to_c, EmptyFn)

onnx2c_step(comps) ==
    Node(comps.convert_onnx_to_c,
         "model_dir" :> OutputOf(train_step(comps), "output_dir"))

compile_step(comps) ==
    Node(comps.compile_and_test,
         ("c_code_dir" :> OutputOf(onnx2c_step(comps), "output_dir"))
            @@ ("model_dir" :> OutputOf(train_step(comps), "output_dir")))

\* a variant of binary_step: the build takes training's output as well
binary_step_from_training(comps) ==
    Node(comps.build_minimal_binary,
         ("c_code_dir" :> OutputOf(onnx2c_step(comps), "output_dir"))
            @@ ("model_dir" :> OutputOf(train_step(comps), "output_dir")))

binary_step(comps) ==
    Node(comps.build_minimal_binary,
         "c_code_dir" :> OutputOf(onnx2c_step(comps), "output_dir"))

nn_pipeline(comps) ==
    [name |-> "pytorch-onnx-c-pipeline",
     compute |-> ClusterName,
     nodes |-> <<train_step(comps), onnx2c_step(comps), compile_step(comps),
                 binary_step(comps)>>,
     outputs |-> [training_output |-> OutputOf(train_step(comps), "output_dir"),
                  c_code_output |-> OutputOf(onnx2c_step(comps), "output_dir"),
                  test_results |-> OutputOf(compile_step(comps), "output_dir"),
                  minimal_binary |-> OutputOf(binary_step(comps), "output_dir")]]

(***************************************************************************)
(* The states the platform can be in before the first start.               *)
(***************************************************************************)
\* a compute without a managed identity: its .identity is None
NoIdentity == [type |-> "None", principal_id |-> None]

ExistingCluster(identity) ==
    [name |-> ClusterName, type |-> "amlcompute", size |-> "Standard_DS3_v2",
     min_instances |-> 0, max_instances |-> 4, idle_time_before_scale_down |-> 120,
     identity |-> identity]

OtherCluster ==
    [name |-> OtherCompute, type |-> "amlcompute", size |-> "Standard_NC6",
     min_instances |-> 0, max_instances |-> 1, idle_time_before_scale_down |-> 120,
     identity |-> NoIdentity]

SystemIdentity(p) == [type |-> "SystemAssigned", principal_id |-> p]

ComputeInits ==
    {EmptyFn,
     OtherCompute :> OtherCluster,
     (ClusterName :> ExistingCluster(SystemIdentity("p1"))) @@ (OtherCompute :> OtherCluster),
     ClusterName :> ExistingCluster(NoIdentity)}

FullEnviron == [k \in Range(Settings) |-> SettingValue[k]]

RoleAssignmentInits ==
    {EmptyFn,
     1 :> Assignment(Scope(FullEnviron, datastores[DatastoreName].account_name),
                     RoleAssignmentParams(FullEnviron, "p1")),
     1 :> [scope |-> Scope(FullEnviron, datastores[DatastoreName].account_name),
           role_definition_id |-> RoleDefinitionId(FullEnviron, ReaderRole),
           principal_id |-> "p1", principal_type |-> "ServicePrincipal"]}

\* the settings the process can inherit, and the .env files there can be
ProcEnvs == {[k \in S |-> SettingValue[k]] : S \in {{}, {"subscription_id"}}}

DotenvFiles == {[k \in S |-> SettingValue[k]] : S \in SUBSET Range(Settings)}

\* the directory trees there can be
Trees == {t \in SUBSET Range(directories) :
            Cardinality(Range(directories) \ t) <= MaxMissing}

Init ==
    /\ compute \in ComputeInits
    /\ roleAssignments \in RoleAssignmentInits
    /\ \E v \in 0..MaxInitVersion : envVersions = [n \in EnvNames |-> v]
    /\ jobs = 0
    /\ procEnv \in ProcEnvs
    /\ dotenvFile \in DotenvFiles
    /\ fs \in Trees
    /\ run = 0
    /\ argv = <<>>
    /\ environ = EmptyFn
    /\ pc = "idle"
    /\ args_run = FALSE
    /\ ml_client = EmptyFn
    /\ missing_directories = <<>>
    /\ compute_names = None
    /\ principal_id = None
    /\ storage_account_name = None
    /\ role_assignment_id = None
    /\ role_result = None
    /\ latest_envs = EmptyFn
    /\ env_i = 0
    /\ components = EmptyFn
    /\ pipeline = EmptyFn
    /\ error = None
    /\ calls = <<>>
    /\ prev_outcome = None
    /\ platform0 = <<compute, roleAssignments, envVersions, jobs>>

(***************************************************************************)
(* How a statement ends.                                                   *)
(***************************************************************************)
RemoteErrors == {"HttpResponseError", "ResourceExistsError"}

\* variants of Caught: no handler at all; a handler that takes every exception
CaughtNothing(api, e) == FALSE

CaughtAnything(api, e) == api = "role_assignments.create"

\* except ResourceExistsError around role_assignments.create, and nowhere else
Caught(api, e) == api = "role_assignments.create" /\ e = "ResourceExistsError"

\* an exception main() does not handle ends the process
Raise(e) == pc' = "aborted" /\ error' = e

\* a remote call returned (value: the version it returned, 0 when it returns none),
\* or raised e: the log keeps which
Returned(api, arg, value) == calls' = Append(calls, <<api, arg, "ok", value>>)

Raised(api, arg, e) == calls' = Append(calls, <<api, arg, e, 0>>)

\* a remote call raised e and nothing caught it
Failed(api, arg, e) == Raised(api, arg, e) /\ Raise(e)

localsA == <<args_run, ml_client, missing_directories>>
localsB == <<compute_names, principal_id, storage_account_name, role_assignment_id,
             role_result>>
localsC == <<latest_envs, env_i, components, pipeline>>

(***************************************************************************)
(* Start of the process: load_dotenv() (line 18) and the call of main().   *)
(***************************************************************************)
Start ==
    /\ pc \in {"idle", "done", "aborted"}
    /\ run < MaxRuns
    /\ argv' \in Argvs
    /\ environ' = LoadDotenv(procEnv, dotenvFile)
    /\ run' = run + 1
    /\ pc' = "parse_args"
    /\ args_run' = FALSE
    /\ ml_client' = EmptyFn
    /\ missing_directories' = <<>>
    /\ compute_names' = None
    /\ principal_id' = None
    /\ storage_account_name' = None
    /\ role_assignment_id' = None
    /\ role_result' = None
    /\ latest_envs' = EmptyFn
    /\ env_i' = 0
    /\ components' = EmptyFn
    /\ pipeline' = EmptyFn
    /\ error' = None
    /\ calls' = <<>>
    /\ prev_outcome' = pc
    /\ platform0' = platform
    /\ UNCHANGED <<platform, procEnv, dotenvFile, fs>>

\* lines 22-24
ParseArgsStep ==
    /\ pc = "parse_args"
    /\ IF ParseArgs(argv).ok
       THEN /\ args_run' = ParseArgs(argv).run
            /\ pc' = "connect"
            /\ error' = error
       ELSE /\ Raise("SystemExit")
            /\ args_run' = args_run
    /\ UNCHANGED <<platform, world, ml_client, missing_directories, localsB, localsC,
                   history>>

\* lines 27-32
Connect ==
    /\ pc = "connect"
    /\ IF \A i \in DOMAIN Settings : ~EnvironGet(environ, Settings[i]).raised
       THEN /\ ml_client' = [k \in Range(Settings) |-> EnvironGet(environ, k).value]
            /\ pc' = "check_dirs"
            /\ error' = error
       ELSE /\ Raise("KeyError")
            /\ ml_client' = ml_client
    /\ UNCHANGED <<platform, world, args_run, missing_directories, localsB, localsC,
                   history>>

\* lines 35-52
CheckDirs ==
    /\ pc = "check_dirs"
    /\ missing_directories' = MissingDirectories
    /\ IF MissingDirectories # <<>>
       THEN Raise("FileNotFoundError")
       ELSE pc' = "compute_list" /\ error' = error
    /\ UNCHANGED <<platform, world, args_run, ml_client, localsB, localsC, history>>


(***************************************************************************)
(* What the platform does with a call.                                     *)
(***************************************************************************)
\* ml_client.compute.list(): the names of the workspace's computes
ListCompute == DOMAIN compute

\* principals no compute and no role assignment knows
FreshPrincipals ==
    Principals \ ({compute[n].identity.principal_id :
                      n \in {m \in DOMAIN compute : compute[m].identity # NoIdentity}}
                  \cup {roleAssignments[n].principal_id : n \in DOMAIN roleAssignments})

\* begin_create_or_update(c).result(): a new cluster gets the identity p, an
\* existing one keeps the identity it has
CreateOrUpdateCompute(c, p) ==
    (c.name :> [c EXCEPT !.identity =
                    IF c.name \in DOMAIN compute /\ compute[c.name].identity # NoIdentity
                    THEN compute[c.name].identity
                    ELSE SystemIdentity(p)])
        @@ compute

\* a role assignment of another name grants the same role to the same principal
\* on the same scope
DuplicateExists(a) ==
    \E n \in DOMAIN roleAssignments :
        /\ roleAssignments[n].scope = a.scope
        /\ roleAssignments[n].role_definition_id = a.role_definition_id
        /\ roleAssignments[n].principal_id = a.principal_id

\* what role_assignments.create can raise: the duplicate, or any other failure
RoleCreateErrors(a) ==
    {"HttpResponseError"}
        \cup (IF DuplicateExists(a) THEN {"ResourceExistsError"} ELSE {})

\* str(uuid.uuid4()): a name no role assignment has.  Names are opaque, so the
\* least unused one stands for every fresh name.
Uuid4 ==
    {id \in (1..MaxUuid) \ DOMAIN roleAssignments :
        \A other \in (1..MaxUuid) \ DOMAIN roleAssignments : id <= other}

\* environments.create_or_update(env) without a version: the next version
NextVersion(name) == envVersions[name] + 1

(***************************************************************************)
(* The remote steps of main().                                             *)
(***************************************************************************)
\* a variant of ClusterAbsent: the cluster is created whatever the list holds
ClusterAbsentAlways(names) == TRUE

\* line 57: "cpu-cluster" not in [c.name for c in ...]
ClusterAbsent(names) == ClusterName \notin names

\* line 57
ComputeList ==
    /\ pc = "compute_list"
    /\ \/ /\ Returned("compute.list", None, 0)
          /\ compute_names' = ListCompute
          /\ pc' = IF ClusterAbsent(ListCompute) THEN "compute_create" ELSE "compute_get"
          /\ error' = error
       \/ /\ \E e \in RemoteErrors : Failed("compute.list", None, e)
          /\ compute_names' = compute_names
    /\ UNCHANGED <<platform, world, localsA, principal_id, storage_account_name,
                   role_assignment_id, role_result, localsC, prev_outcome, platform0>>

\* lines 58-68
ComputeCreate ==
    /\ pc = "compute_create"
    /\ \/ /\ \E p \in FreshPrincipals :
                compute' = CreateOrUpdateCompute(ComputeCluster, p)
          /\ Returned("compute.begin_create_or_update", ClusterName, 0)
          /\ pc' = "compute_get"
          /\ error' = error
       \/ /\ \E e \in RemoteErrors :
                Failed("compute.begin_create_or_update", ClusterName, e)
          /\ compute' = compute
    /\ UNCHANGED <<roleAssignments, envVersions, jobs, world, localsA, localsB, localsC,
                   prev_outcome, platform0>>

\* lines 72-73
ComputeGet ==
    /\ pc = "compute_get"
    /\ \/ /\ ClusterName \in DOMAIN compute
          /\ Returned("compute.get", ClusterName, 0)
          /\ IF compute[ClusterName].identity = NoIdentity
             THEN Raise("AttributeError") /\ principal_id' = principal_id
             ELSE /\ principal_id' = compute[ClusterName].identity.principal_id
                  /\ pc' = "datastore_get"
                  /\ error' = error
       \/ /\ \E e \in RemoteErrors : Failed("compute.get", ClusterName, e)
          /\ principal_id' = principal_id
    /\ UNCHANGED <<platform, world, localsA, compute_names, storage_account_name,
                   role_assignment_id, role_result, localsC, prev_outcome, platform0>>

\* line 74
DatastoreGet ==
    /\ pc = "datastore_get"
    /\ \/ /\ Returned("datastores.get", DatastoreName, 0)
          /\ storage_account_name' = datastores[DatastoreName].account_name
          /\ pc' = "role_create"
          /\ error' = error
       \/ /\ \E e \in RemoteErrors : Failed("datastores.get", DatastoreName, e)
          /\ storage_account_name' = storage_account_name
    /\ UNCHANGED <<platform, world, localsA, compute_names, principal_id,
                   role_assignment_id, role_result, localsC, prev_outcome, platform0>>

\* lines 79-104
RoleCreate ==
    /\ pc = "role_create"
    /\ \E id \in Uuid4 :
        LET scope == Scope(environ, storage_account_name)
            role_assignment_params == RoleAssignmentParams(environ, principal_id)
            a == Assignment(scope, role_assignment_params)
        IN  /\ role_assignment_id' = id
            /\ \/ /\ ~DuplicateExists(a)
                  /\ roleAssignments' = (id :> a) @@ roleAssignments
                  /\ Returned("role_assignments.create", id, 0)
                  /\ role_result' = "created"
                  /\ pc' = "env_register"
                  /\ env_i' = 1
                  /\ error' = error
               \/ /\ roleAssignments' = roleAssignments
                  /\ \E e \in RoleCreateErrors(a) :
                        /\ Raised("role_assignments.create", id, e)
                        /\ IF Caught("role_assignments.create", e)
                           THEN /\ role_result' = "exists"
                                /\ pc' = "env_register"
                                /\ env_i' = 1
                                /\ error' = error
                           ELSE /\ Raise(e)
                                /\ role_result' = role_result
                                /\ env_i' = env_i
    /\ UNCHANGED <<compute, envVersions, jobs, world, localsA, compute_names,
                   principal_id, storage_account_name, latest_envs, components,
                   pipeline, prev_outcome, platform0>>

\* lines 128-139: one turn of the loop over env_configs
EnvRegister ==
    /\ pc = "env_register"
    /\ LET env_name == env_configs[env_i].name
       IN \/ /\ envVersions' = [envVersions EXCEPT ![env_name] = NextVersion(env_name)]
             /\ Returned("environments.create_or_update", env_name, NextVersion(env_name))
             /\ latest_envs' = (env_name :> EnvRef(env_name, NextVersion(env_name)))
                                  @@ latest_envs
             /\ IF env_i < Len(env_configs)
                THEN env_i' = env_i + 1 /\ pc' = pc
                ELSE env_i' = env_i /\ pc' = "declare"
             /\ error' = error
          \/ /\ \E e \in RemoteErrors : Failed("environments.create_or_update", env_name, e)
             /\ UNCHANGED <<envVersions, latest_envs, env_i>>
    /\ UNCHANGED <<compute, roleAssignments, jobs, world, localsA, localsB, components,
                   pipeline, prev_outcome, platform0>>

\* lines 142-241: the components, then pipeline = nn_pipeline()
Declare ==
    /\ pc = "declare"
    /\ components' = Components(latest_envs)
    /\ pipeline' = nn_pipeline(Components(latest_envs))
    /\ pc' = "finish"
    /\ UNCHANGED <<platform, world, localsA, localsB, latest_envs, env_i, error, history>>

\* a variant of RunRequested: the pipeline is submitted whatever the flag
RunRequestedAlways == TRUE

\* line 244: if args.run
RunRequested == args_run = TRUE

\* lines 244-246
Submit ==
    /\ pc = "finish"
    /\ RunRequested
    /\ \/ /\ jobs' = jobs + 1
          /\ Returned("jobs.create_or_update", pipeline.name, 0)
          /\ pc' = "done"
          /\ error' = error
       \/ /\ \E e \in RemoteErrors : Failed("jobs.create_or_update", pipeline.name, e)
          /\ jobs' = jobs
    /\ UNCHANGED <<compute, roleAssignments, envVersions, world, locals, prev_outcome, platform0>>

\* lines 247-249
SetupComplete ==
    /\ pc = "finish"
    /\ ~RunRequested
    /\ pc' = "done"
    /\ UNCHANGED <<platform, world, locals, error, history>>

Next ==
    \/ Start
    \/ ParseArgsStep
    \/ Connect
    \/ CheckDirs
    \/ ComputeList
    \/ ComputeCreate
    \/ ComputeGet
    \/ DatastoreGet
    \/ RoleCreate
    \/ EnvRegister
    \/ Declare
    \/ Submit
    \/ SetupComplete

Spec == Init /\ [][Next]_vars


(***************************************************************************)
(* Vocabulary of the properties.                                           *)
(***************************************************************************)
Ended == pc \in {"done", "aborted"}

\* the remote calls of this run, without their results
Issued == [i \in DOMAIN calls |-> <<calls[i][1], calls[i][2]>>]

IsPrefix(s, t) == Len(s) <= Len(t) /\ \A i \in DOMAIN s : s[i] = t[i]

\* the i-th call raised and no handler took the exception
Unhandled(i) ==
    /\ calls[i][3] \in RemoteErrors
    /\ ~(calls[i][1] = "role_assignments.create" /\ calls[i][3] = "ResourceExistsError")

\* the role assignments that grant Storage Blob Data Contributor on the workspace's
\* storage account to the principal p
Grants(p) ==
    {n \in DOMAIN roleAssignments :
        /\ roleAssignments[n].scope =
              "/subscriptions/sub-1/resourceGroups/rg-1/providers/Microsoft.Storage/storageAccounts/stacct1"
        /\ roleAssignments[n].role_definition_id =
              "/subscriptions/sub-1/providers/Microsoft.Authorization/roleDefinitions/ba92f5b4-2d11-453d-a403-e96b0029c9fe"
        /\ roleAssignments[n].principal_id = p}

ClusterHasIdentity ==
    /\ "cpu-cluster" \in DOMAIN compute
    /\ compute["cpu-cluster"].identity.type = "SystemAssigned"

SettingsPresent ==
    {"subscription_id", "resource_group_name", "workspace_name"} \subseteq DOMAIN environ

DirectoryMissing ==
    \E d \in {"environments/pytorch", "environments/onnx2c", "environments/gcc",
              "src/pytorch_train", "src/onnx2c", "src/compile_test",
              "src/minimal_binary"} : d \notin fs

\* the command line holds --run, spelled out or abbreviated
RunFlagGiven == \E i \in DOMAIN argv : argv[i] \in {"--run", "--ru"}

\* the parser accepts the command line
CommandLineAccepted == \A i \in DOMAIN argv : argv[i] \in {"--run", "--ru"}

(***************************************************************************)
(* C1  Idempotence.  In a run that follows a completed run no cluster      *)
(* creation is called and no role assignment is added; when that run has   *)
(* completed too, the workspace holds exactly one compute named            *)
(* "cpu-cluster" and exactly one (so at most one) role assignment for the  *)
(* scope, role and principal of that cluster.                              *)
(***************************************************************************)
C1_Idempotent ==
    (run >= 2 /\ prev_outcome = "done") =>
        /\ \A i \in DOMAIN calls : calls[i][1] # "compute.begin_create_or_update"
        /\ roleAssignments = platform0[2]
        /\ compute = platform0[1]
        /\ pc = "done" =>
              /\ Cardinality({n \in DOMAIN compute : compute[n].name = "cpu-cluster"}) = 1
              /\ ClusterHasIdentity
              /\ Cardinality(Grants(compute["cpu-cluster"].identity.principal_id)) = 1

C1_Witness ==
    /\ run = 2
    /\ prev_outcome = "done"
    /\ pc = "done"
    /\ \E i \in DOMAIN calls :
          calls[i][1] = "role_assignments.create" /\ calls[i][3] = "ResourceExistsError"

(***************************************************************************)
(* C2  Directory precondition, as claimed: with a required directory       *)
(* missing (and a command line the parser accepts), main() ends with       *)
(* FileNotFoundError, having made no remote call and left the platform as  *)
(* it was.                                                                 *)
(***************************************************************************)
C2_Original ==
    (run >= 1 /\ DirectoryMissing /\ CommandLineAccepted) =>
        /\ calls = <<>>
        /\ platform = platform0
        /\ Ended => error = "FileNotFoundError"

(***************************************************************************)
(* C2  amended: with a required directory missing, main() never makes a    *)
(* remote call and leaves the platform as it was; it ends with             *)
(* FileNotFoundError whenever the command line parsed and the three        *)
(* settings are present, and otherwise with the SystemExit or KeyError     *)
(* that precedes the directory check.                                      *)
(***************************************************************************)
C2_Amended ==
    (run >= 1 /\ DirectoryMissing) =>
        /\ calls = <<>>
        /\ platform = platform0
        /\ pc \in {"parse_args", "connect", "check_dirs", "aborted"}
        /\ Ended =>
              /\ error \in {"SystemExit", "KeyError", "FileNotFoundError"}
              /\ (CommandLineAccepted /\ SettingsPresent)
                    <=> error = "FileNotFoundError"

C2_Witness ==
    /\ DirectoryMissing
    /\ pc = "aborted"
    /\ error = "FileNotFoundError"
    /\ Len(missing_directories) = 1
    /\ calls = <<>>

(***************************************************************************)
(* C5  A missing setting ends main() at startup: before the directory      *)
(* check, before any remote call, and without a client built from a        *)
(* substituted default.                                                    *)
(***************************************************************************)
C5_MissingSettingAborts ==
    (run >= 1 /\ ~SettingsPresent) =>
        /\ pc \in {"parse_args", "connect", "aborted"}
        /\ calls = <<>>
        /\ platform = platform0
        /\ missing_directories = <<>>
        /\ ml_client = <<>>
        /\ Ended => error \in {"SystemExit", "KeyError"}
        /\ (Ended /\ CommandLineAccepted) => error = "KeyError"

C5_Witness ==
    /\ ~SettingsPresent
    /\ "subscription_id" \in DOMAIN environ
    /\ pc = "aborted"
    /\ error = "KeyError"
    /\ DirectoryMissing


(***************************************************************************)
(* More vocabulary: the declared graph.                                    *)
(***************************************************************************)
Declared == DOMAIN pipeline # {}

\* <<producer, its output, consumer, its input>>
Edges ==
    {<<pipeline.nodes[i].inputs[k].step, pipeline.nodes[i].inputs[k].output,
       pipeline.nodes[i].name, k>> :
        <<i, k>> \in {ik \in (DOMAIN pipeline.nodes) \X {"model_dir", "c_code_dir", "output_dir"} :
                         ik[2] \in DOMAIN pipeline.nodes[ik[1]].inputs}}

\* the declared component of a node
ComponentOf(name) ==
    CHOOSE c \in {components[k] : k \in DOMAIN components} : c.name = name

\* where a step stands in the declaration order (0: nowhere)
Position(name) ==
    IF \E i \in DOMAIN pipeline.nodes : pipeline.nodes[i].name = name
    THEN CHOOSE i \in DOMAIN pipeline.nodes : pipeline.nodes[i].name = name
    ELSE 0

(***************************************************************************)
(* C3  The declared pipeline has exactly four data edges: training's       *)
(* output_dir feeds onnx2c.model_dir and compile_and_test.model_dir, and   *)
(* onnx2c's output_dir feeds compile_and_test.c_code_dir and               *)
(* build_minimal.c_code_dir.                                               *)
(***************************************************************************)
C3_ExactlyFourEdges ==
    Declared =>
        Edges = {<<"pytorch_train", "output_dir", "onnx2c", "model_dir">>,
                 <<"pytorch_train", "output_dir", "compile_and_test", "model_dir">>,
                 <<"onnx2c", "output_dir", "compile_and_test", "c_code_dir">>,
                 <<"onnx2c", "output_dir", "build_minimal", "c_code_dir">>}

C3_Witness ==
    /\ Declared
    /\ pc = "finish"
    /\ Cardinality(Edges) = 4
    /\ Len(pipeline.nodes) = 4

Submissions == {i \in DOMAIN calls : calls[i][1] = "jobs.create_or_update"}

\* main() got to its last statement: nothing before the submission raised
SetupCompleted ==
    \/ error = "None"
    \/ calls # <<>> /\ calls[Len(calls)][1] = "jobs.create_or_update"

(***************************************************************************)
(* C4  A run issues the job submission if and only if --run was given and  *)
(* every step before it completed; it issues it at most once, as the last  *)
(* remote call, after the three environment registrations returned.        *)
(***************************************************************************)
C4_SubmitIffRun ==
    /\ Cardinality(Submissions) <= 1
    /\ Submissions # {} =>
          /\ Ended
          /\ RunFlagGiven
          /\ Submissions = {Len(calls)}
          /\ \A n \in {"pytorch-onnx-env", "onnx2c-env", "gcc-env"} :
                \E i \in 1..(Len(calls) - 1) :
                    /\ calls[i][1] = "environments.create_or_update"
                    /\ calls[i][2] = n
                    /\ calls[i][3] = "ok"
          /\ \E i \in 1..(Len(calls) - 1) : calls[i][1] = "role_assignments.create"
    /\ Ended => (Submissions # {} <=> (RunFlagGiven /\ SetupCompleted))
    /\ (Ended /\ ~RunFlagGiven) => jobs = platform0[4]

C4_Witness ==
    /\ pc = "done"
    /\ RunFlagGiven
    /\ Cardinality(Submissions) = 1
    /\ jobs = platform0[4] + 1
    /\ run = 2

RoleCallAt ==
    IF \E i \in DOMAIN calls : calls[i][1] = "role_assignments.create"
    THEN CHOOSE i \in DOMAIN calls : calls[i][1] = "role_assignments.create"
    ELSE 0

\* the calls main() makes after the role assignment, when none of them fails
AfterRoleAssignment ==
    <<<<"environments.create_or_update", "pytorch-onnx-env">>,
      <<"environments.create_or_update", "onnx2c-env">>,
      <<"environments.create_or_update", "gcc-env">>>>
        \o (IF RunFlagGiven
            THEN <<<<"jobs.create_or_update", "pytorch-onnx-c-pipeline">>>>
            ELSE <<>>)

RoleCallOutcomes == {"ok", "ResourceExistsError"}

(***************************************************************************)
(* C6  A ResourceExistsError from the role-assignment creation does not    *)
(* end main(): the run goes on to the three environment registrations, the *)
(* declaration and (with --run) the submission, the same calls as after a  *)
(* role assignment that was created.                                       *)
(***************************************************************************)
C6_DuplicateRoleNotFatal ==
    (RoleCallAt # 0 /\ calls[RoleCallAt][3] \in RoleCallOutcomes) =>
        /\ error # "ResourceExistsError" \/ RoleCallAt < Len(calls)
        /\ pc \in {"env_register", "declare", "finish", "done", "aborted"}
        /\ pc = "aborted" => RoleCallAt < Len(calls)
        /\ IsPrefix(SubSeq(Issued, RoleCallAt + 1, Len(calls)), AfterRoleAssignment)
        /\ pc \in {"finish", "done"} => Declared
        /\ pc = "done" => SubSeq(Issued, RoleCallAt + 1, Len(calls)) = AfterRoleAssignment

C6_Witness ==
    /\ pc = "done"
    /\ RoleCallAt # 0
    /\ calls[RoleCallAt][3] = "ResourceExistsError"
    /\ RunFlagGiven
    /\ Len(calls) = RoleCallAt + 4


\* what the calls of this run that returned have created is on the platform
EffectsKept ==
    \A i \in DOMAIN calls :
        /\ (calls[i][1] = "compute.begin_create_or_update" /\ calls[i][3] = "ok")
              => ClusterHasIdentity
        /\ (calls[i][1] = "role_assignments.create" /\ calls[i][3] = "ok")
              => calls[i][2] \in DOMAIN roleAssignments
        /\ (calls[i][1] = "environments.create_or_update" /\ calls[i][3] = "ok")
              => envVersions[calls[i][2]] >= calls[i][4]
        /\ (calls[i][1] = "jobs.create_or_update" /\ calls[i][3] = "ok")
              => jobs > platform0[4]

(***************************************************************************)
(* C7  A remote call that raises anything but the handled                  *)
(* ResourceExistsError ends main() there: it is the last call of the run,  *)
(* it was issued once, the run is aborted with that exception, and what    *)
(* the earlier calls of the run created is still on the platform.          *)
(***************************************************************************)
C7_FailureTerminates ==
    /\ \A i \in DOMAIN calls :
          Unhandled(i) =>
              /\ i = Len(calls)
              /\ pc = "aborted"
              /\ error = calls[i][3]
              /\ \A j \in 1..(i - 1) : Issued[j] # Issued[i]
    /\ EffectsKept
    /\ DOMAIN platform0[1] \subseteq DOMAIN compute
    /\ DOMAIN platform0[2] \subseteq DOMAIN roleAssignments
    /\ \A n \in DOMAIN envVersions : envVersions[n] >= platform0[3][n]
    /\ jobs >= platform0[4]

C7_Witness ==
    /\ pc = "aborted"
    /\ calls # <<>>
    /\ Unhandled(Len(calls))
    /\ calls[Len(calls)][1] = "environments.create_or_update"
    /\ calls[Len(calls)][2] = "gcc-env"
    /\ \E i \in DOMAIN calls :
          calls[i][1] = "compute.begin_create_or_update" /\ calls[i][3] = "ok"
    /\ "cpu-cluster" \in DOMAIN compute
    /\ "cpu-cluster" \notin DOMAIN platform0[1]
    /\ envVersions["onnx2c-env"] > platform0[3]["onnx2c-env"]

CallOrder ==
    <<<<"compute.list", "None">>>>
        \o (IF "cpu-cluster" \in DOMAIN platform0[1]
            THEN <<>>
            ELSE <<<<"compute.begin_create_or_update", "cpu-cluster">>>>)
        \o <<<<"compute.get", "cpu-cluster">>,
             <<"datastores.get", "workspaceblobstore">>>>

CallOrderAfterIdentity ==
    <<<<"environments.create_or_update", "pytorch-onnx-env">>,
      <<"environments.create_or_update", "onnx2c-env">>,
      <<"environments.create_or_update", "gcc-env">>>>
        \o (IF RunFlagGiven
            THEN <<<<"jobs.create_or_update", "pytorch-onnx-c-pipeline">>>>
            ELSE <<>>)

\* the log with the generated name of the role assignment left out
IssuedApis ==
    [i \in DOMAIN calls |->
        IF calls[i][1] = "role_assignments.create"
        THEN <<calls[i][1], "uuid">>
        ELSE <<calls[i][1], calls[i][2]>>]

(***************************************************************************)
(* C8  The remote calls of a run are a prefix of one fixed sequence:       *)
(* compute list, cluster creation (only when the list lacked               *)
(* "cpu-cluster"), compute get, datastore get, role-assignment creation,   *)
(* the registrations of pytorch-onnx-env, onnx2c-env and gcc-env, and      *)
(* (only with --run) the job submission; a call is issued only after the   *)
(* one before it returned.  So when the job is submitted the cluster       *)
(* exists, the role grant for its identity exists and the three            *)
(* environments are registered.                                            *)
(***************************************************************************)
C8_FixedOrder ==
    /\ IsPrefix(IssuedApis,
                CallOrder \o <<<<"role_assignments.create", "uuid">>>>
                    \o CallOrderAfterIdentity)
    /\ \A i \in 1..(Len(calls) - 1) : ~Unhandled(i)
    /\ Submissions # {} =>
          /\ ClusterHasIdentity
          /\ Grants(compute["cpu-cluster"].identity.principal_id) # {}
          /\ \A n \in {"pytorch-onnx-env", "onnx2c-env", "gcc-env"} :
                envVersions[n] > platform0[3][n]

C8_Witness ==
    /\ pc = "done"
    /\ Submissions # {}
    /\ Len(calls) = 9
    /\ calls[2][1] = "compute.begin_create_or_update"
    /\ calls[Len(calls)][3] = "ok"

\* the version the registration of n returned in this run
RegisteredVersion(n) ==
    calls[CHOOSE i \in DOMAIN calls :
              calls[i][1] = "environments.create_or_update" /\ calls[i][2] = n][4]

Reference(n) == n \o ":" \o ToString(RegisteredVersion(n))

(***************************************************************************)
(* C9  Every step is bound to "<environment>:<version>", the version being *)
(* the one this run's registration of that environment returned (the       *)
(* latest the workspace holds): pytorch_train to pytorch-onnx-env, onnx2c  *)
(* to onnx2c-env, compile_and_test and build_minimal to gcc-env; every     *)
(* step and the pipeline target the compute "cpu-cluster".                 *)
(***************************************************************************)
C9_EnvironmentBinding ==
    Declared =>
        /\ \A n \in {"pytorch-onnx-env", "onnx2c-env", "gcc-env"} :
              /\ RegisteredVersion(n) >= 1
              /\ RegisteredVersion(n) = envVersions[n]
              /\ RegisteredVersion(n) > platform0[3][n]
        /\ ComponentOf("pytorch_train").environment = Reference("pytorch-onnx-env")
        /\ ComponentOf("onnx2c").environment = Reference("onnx2c-env")
        /\ ComponentOf("compile_and_test").environment = Reference("gcc-env")
        /\ ComponentOf("build_minimal").environment = Reference("gcc-env")
        /\ \A k \in DOMAIN components : components[k].compute = "cpu-cluster"
        /\ pipeline.compute = "cpu-cluster"
        /\ {pipeline.nodes[i].name : i \in DOMAIN pipeline.nodes}
              = {components[k].name : k \in DOMAIN components}

C9_Witness ==
    /\ Declared
    /\ run = 2
    /\ ComponentOf("build_minimal").environment = "gcc-env:2"
    /\ ComponentOf("pytorch_train").environment = "pytorch-onnx-env:3"

(***************************************************************************)
(* C10  The declared graph is acyclic and fully bound: the steps are       *)
(* declared in the order pytorch_train, onnx2c, compile_and_test,          *)
(* build_minimal; pytorch_train alone has no inputs; every declared input  *)
(* of a step is bound to a declared output of a step that stands strictly  *)
(* earlier in that order.                                                  *)
(***************************************************************************)
C10_AcyclicFullyBound ==
    Declared =>
        /\ [i \in DOMAIN pipeline.nodes |-> pipeline.nodes[i].name]
              = <<"pytorch_train", "onnx2c", "compile_and_test", "build_minimal">>
        /\ \A i \in DOMAIN pipeline.nodes :
              LET node == pipeline.nodes[i]
                  c == ComponentOf(node.name)
              IN  /\ DOMAIN node.inputs = c.inputs
                  /\ (c.inputs = {}) <=> (node.name = "pytorch_train")
                  /\ \A k \in DOMAIN node.inputs :
                        /\ Position(node.inputs[k].step) >= 1
                        /\ Position(node.inputs[k].step) < i
                        /\ node.inputs[k].output
                              \in ComponentOf(node.inputs[k].step).outputs
        /\ ComponentOf("onnx2c").inputs = {"model_dir"}
        /\ ComponentOf("compile_and_test").inputs = {"c_code_dir", "model_dir"}
        /\ ComponentOf("build_minimal").inputs = {"c_code_dir"}

C10_Witness ==
    /\ Declared
    /\ pc = "done"
    /\ Position("build_minimal") = 4
    /\ Position(pipeline.nodes[4].inputs["c_code_dir"].step) = 2
    /\ Position(pipeline.nodes[3].inputs["model_dir"].step) = 1

====
